---- MODULE Spec2Model ----
(***************************************************************************)
(* Basket construction and risk-adjusted position sizing of the RATIO bot  *)
(* (backend/lllm/basket_builder.py, backend/lllm/risk_manager 2.py,        *)
(* backend/lllm/config.py).                                                *)
(*                                                                         *)
(* Python floats are modelled as exact rationals <<numerator, denominator>>*)
(* in lowest terms with a positive denominator.  A Python exception is a   *)
(* return record whose field "raised" is TRUE.                             *)
(***************************************************************************)
EXTENDS Integers, Sequences, FiniteSets, TLC

VARIABLES
    builder,   \* the BasketBuilder instance: max_assets, min_weight
    manager,   \* the RiskManager instance: account_balance, risk_per_trade, ...
    pc,        \* position of the caller
    call,      \* the arguments of the operation being invoked
    locals,    \* local variables of the operation when it finished
    ret,       \* the value the operation returned (or the exception raised)
    ret2,      \* the value of the follow-up operation on ret
    venue,     \* the exchange: the number of positions open on the account
    lock       \* the callers' serialization of their trading cycles

vars == <<builder, manager, pc, call, locals, ret, ret2, venue, lock>>

----------------------------------------------------------------------------
(* Exact rational arithmetic standing for Python float arithmetic.         *)

Abs(n) == IF n < 0 THEN -n ELSE n

RECURSIVE GCD(_, _)
GCD(a, b) == IF b = 0 THEN a ELSE GCD(b, a % b)

Frac(n, d) ==
    LET s == IF d < 0 THEN -1 ELSE 1
        g == GCD(Abs(n), Abs(d))
    IN  <<(s * n) \div g, (s * d) \div g>>

Num(n) == <<n, 1>>
Zero == Num(0)
One == Num(1)

Add(x, y) == Frac(x[1] * y[2] + y[1] * x[2], x[2] * y[2])
Sub(x, y) == Frac(x[1] * y[2] - y[1] * x[2], x[2] * y[2])
Mul(x, y) == Frac(x[1] * y[1], x[2] * y[2])
Div(x, y) == Frac(x[1] * y[2], x[2] * y[1])
Lt(x, y) == x[1] * y[2] < y[1] * x[2]
Le(x, y) == x[1] * y[2] <= y[1] * x[2]
Max(x, y) == IF Lt(x, y) THEN y ELSE x
Min(x, y) == IF Lt(y, x) THEN y ELSE x
AbsR(x) == <<Abs(x[1]), x[2]>>

RECURSIVE SumSeq(_)
SumSeq(s) == IF s = <<>> THEN Zero ELSE Add(Head(s), SumSeq(Tail(s)))

RECURSIVE SumOver(_, _)
SumOver(f, S) ==
    IF S = {} THEN Zero
    ELSE LET i == CHOOSE j \in S : \A k \in S : j <= k
         IN  Add(f[i], SumOver(f, S \ {i}))

RECURSIVE Pow10(_)
Pow10(k) == IF k = 0 THEN 1 ELSE 10 * Pow10(k - 1)

\* Python round(x, ndigits): to the nearest multiple of 10^-ndigits, a tie
\* going to the even one.
round(x, ndigits) ==
    LET p == Pow10(ndigits)
        n == x[1] * p
        q == n \div x[2]
        r == n % x[2]
        m == IF 2 * r < x[2] THEN q
             ELSE IF 2 * r > x[2] THEN q + 1
             ELSE IF q % 2 = 0 THEN q ELSE q + 1
    IN  Frac(m, p)

Returned(v) == [raised |-> FALSE, value |-> v]
ZeroDivisionError == [raised |-> TRUE, value |-> "ZeroDivisionError"]

----------------------------------------------------------------------------
(* backend/lllm/config.py                                                  *)

CRYPTO_ASSETS == {"BTC", "ETH", "SOL", "ARB", "OP", "DOGE", "MATIC"}
METAL_ASSETS == {"XAU", "XAG", "XPT", "XPD", "HG"}
STOCK_ASSETS == {"AAPL", "NVDA", "TSLA", "MSFT", "GOOGL", "AMZN", "META", "AMD"}
ALL_ASSETS == CRYPTO_ASSETS

MAX_ASSETS_PER_SIDE == 5

\* A minimum weight of 5% instead of 10%.
MinWeightFivePercent == Frac(5, 100)

MIN_WEIGHT_PER_ASSET == Frac(10, 100)

\* Baselines that are 3.0 for every class.
VOLATILITY_BASELINES_flat(asset_class) == Frac(30, 10)

\* VOLATILITY_BASELINES.get(asset_class, 3.0)
VOLATILITY_BASELINES(asset_class) ==
    CASE asset_class = "CRYPTO" -> Frac(50, 10)
      [] asset_class = "METALS" -> Frac(15, 10)
      [] asset_class = "STOCKS" -> Frac(25, 10)
      [] OTHER -> Frac(30, 10)

----------------------------------------------------------------------------
(* backend/lllm/basket_builder.py                                          *)

BasketBuilder == [max_assets |-> MAX_ASSETS_PER_SIDE,
                  min_weight |-> MIN_WEIGHT_PER_ASSET]

\* A lookup that knows the crypto and metal tables only.
get_asset_class_without_stocks(symbol) ==
    IF symbol \in CRYPTO_ASSETS THEN "CRYPTO"
    ELSE IF symbol \in METAL_ASSETS THEN "METALS"
    ELSE "UNKNOWN"

get_asset_class(symbol) ==
    IF symbol \in CRYPTO_ASSETS THEN "CRYPTO"
    ELSE IF symbol \in METAL_ASSETS THEN "METALS"
    ELSE IF symbol \in STOCK_ASSETS THEN "STOCKS"
    ELSE "UNKNOWN"

equal_weight(assets) ==
    LET n == Len(assets) IN [i \in 1..n |-> Frac(1, n)]

\* A redistributor that raises the weights below the floor and leaves it at
\* that: the others are not reduced and the vector is not renormalized.
enforce_min_weight_no_renormalize(self, ws) ==
    [i \in 1..Len(ws) |->
        IF Lt(ws[i], self.min_weight) THEN self.min_weight ELSE ws[i]]

\* A redistributor whose deficit is the floor itself for every entry below
\* it, not the distance of the entry to the floor.
enforce_min_weight_frame_full_deficit(self, ws) ==
    LET n == Len(ws)
        below_min == {i \in 1..n : Lt(ws[i], self.min_weight)}
        deficit == SumOver([i \in 1..n |-> self.min_weight], below_min)
        new_weights == [i \in 1..n |->
                           IF i \in below_min THEN self.min_weight ELSE ws[i]]
        above_min == (1..n) \ below_min
        above_total == SumOver(new_weights, above_min)
        factor == Div(Sub(above_total, deficit), above_total)
        reduced == IF Lt(deficit, above_total)
                   THEN [i \in 1..n |->
                            IF i \in above_min THEN Mul(new_weights[i], factor)
                            ELSE new_weights[i]]
                   ELSE new_weights
        total == SumSeq(reduced)
    IN  IF Lt(One, Mul(Num(n), self.min_weight))
        THEN [locals |-> [n |-> n], ret |-> [i \in 1..n |-> Frac(1, n)]]
        ELSE IF below_min = {} THEN [locals |-> [n |-> n, below_min |-> below_min], ret |-> ws]
        ELSE [locals |-> [n |-> n, below_min |-> below_min, deficit |-> deficit,
                          above_total |-> above_total, total |-> total],
              ret |-> [i \in 1..n |-> Div(reduced[i], total)]]

\* _enforce_min_weight: its locals at the return it takes, and what it
\* returns.  `total` is the sum of new_weights before the final division.
enforce_min_weight_frame(self, ws) ==
    LET n == Len(ws)
        below_min == {i \in 1..n : Lt(ws[i], self.min_weight)}
        deficit == SumOver([i \in 1..n |-> Sub(self.min_weight, ws[i])], below_min)
        new_weights == [i \in 1..n |->
                           IF i \in below_min THEN self.min_weight ELSE ws[i]]
        above_min == (1..n) \ below_min
        above_total == SumOver(new_weights, above_min)
        factor == Div(Sub(above_total, deficit), above_total)
        reduced == IF Lt(deficit, above_total)
                   THEN [i \in 1..n |->
                            IF i \in above_min THEN Mul(new_weights[i], factor)
                            ELSE new_weights[i]]
                   ELSE new_weights
        total == SumSeq(reduced)
    IN  IF Lt(One, Mul(Num(n), self.min_weight))
        THEN [locals |-> [n |-> n], ret |-> [i \in 1..n |-> Frac(1, n)]]
        ELSE IF below_min = {} THEN [locals |-> [n |-> n, below_min |-> below_min], ret |-> ws]
        ELSE [locals |-> [n |-> n, below_min |-> below_min, deficit |-> deficit,
                          above_total |-> above_total, total |-> total],
              ret |-> [i \in 1..n |-> Div(reduced[i], total)]]

enforce_min_weight(self, ws) == enforce_min_weight_frame(self, ws).ret

\* dict.get(key, default); a dict is a function whose domain is its keys.
Get(d, key, default) == IF key \in DOMAIN d THEN d[key] ELSE default

\* Python truthiness of an Optional[dict]: None and {} are both falsy.
Falsy(d) == DOMAIN d = {}

volatility_weight(self, assets, volatilities) ==
    LET n == Len(assets)
        used == IF Falsy(volatilities)
                THEN [a \in {assets[i] : i \in 1..n} |->
                         VOLATILITY_BASELINES(get_asset_class(a))]
                ELSE volatilities
        vols == [i \in 1..n |-> Get(used, assets[i], Frac(30, 10))]
        inv_vols == [i \in 1..n |-> Div(One, Max(vols[i], Frac(1, 10)))]
        total == SumSeq(inv_vols)
    IN  Returned(enforce_min_weight(self, [i \in 1..n |-> Div(inv_vols[i], total)]))

conviction_weight(self, assets, convictions) ==
    LET n == Len(assets)
        scores == [i \in 1..n |-> Get(convictions, assets[i], Frac(50, 10))]
        total == SumSeq(scores)
    IN  IF Falsy(convictions) THEN Returned(equal_weight(assets))
        ELSE IF Le(total, Zero) THEN Returned(equal_weight(assets))
        ELSE Returned(enforce_min_weight(self,
                          [i \in 1..n |-> Div(scores[i], total)]))

default_caps ==
    [a \in {"BTC", "ETH", "SOL", "XRP", "DOGE", "AVAX", "LINK", "MATIC", "ARB",
            "OP", "XAU", "XAG", "XPT", "XPD", "HG", "AAPL", "MSFT", "NVDA",
            "GOOGL", "AMZN", "META", "TSLA", "AMD"} |->
        CASE a = "BTC" -> Num(800) [] a = "ETH" -> Num(300) [] a = "SOL" -> Num(50)
          [] a = "XRP" -> Num(30) [] a = "DOGE" -> Num(20) [] a = "AVAX" -> Num(15)
          [] a = "LINK" -> Num(10) [] a = "MATIC" -> Num(8) [] a = "ARB" -> Num(5)
          [] a = "OP" -> Num(4) [] a = "XAU" -> Num(500) [] a = "XAG" -> Num(30)
          [] a = "XPT" -> Num(5) [] a = "XPD" -> Num(5) [] a = "HG" -> Num(10)
          [] a = "AAPL" -> Num(3000) [] a = "MSFT" -> Num(2800)
          [] a = "NVDA" -> Num(1200) [] a = "GOOGL" -> Num(1800)
          [] a = "AMZN" -> Num(1600) [] a = "META" -> Num(800)
          [] a = "TSLA" -> Num(700) [] a = "AMD" -> Num(200)]

market_cap_weight(self, assets, market_caps) ==
    LET n == Len(assets)
        used == IF Falsy(market_caps) THEN default_caps ELSE market_caps
        caps == [i \in 1..n |-> Get(used, assets[i], Num(10))]
        total == SumSeq(caps)
    IN  IF total = Zero THEN ZeroDivisionError
        ELSE Returned(enforce_min_weight(self,
                          [i \in 1..n |-> Div(caps[i], total)]))

\* A trim that keeps the last max_assets of the list.
trimmed_keeping_last(self, assets) ==
    IF Len(assets) > self.max_assets
    THEN SubSeq(assets, Len(assets) - self.max_assets + 1, Len(assets))
    ELSE assets

\* The assets create_basket weights: the first max_assets of its argument.
trimmed(self, assets) ==
    IF Len(assets) > self.max_assets THEN SubSeq(assets, 1, self.max_assets)
    ELSE assets

\* A dispatch that refuses a weighting name it does not know.
policy_weights_refusing(self, assets, weighting, volatilities, convictions, market_caps) ==
    IF weighting = "equal" THEN Returned(equal_weight(assets))
    ELSE IF weighting = "volatility"
    THEN volatility_weight(self, assets, volatilities)
    ELSE IF weighting = "conviction"
    THEN conviction_weight(self, assets, convictions)
    ELSE IF weighting = "market_cap"
    THEN market_cap_weight(self, assets, market_caps)
    ELSE [raised |-> TRUE, value |-> "ValueError"]

\* create_basket's local `weights`, or the exception the policy raised.
policy_weights(self, assets, weighting, volatilities, convictions, market_caps) ==
    IF weighting = "equal" THEN Returned(equal_weight(assets))
    ELSE IF weighting = "volatility"
    THEN volatility_weight(self, assets, volatilities)
    ELSE IF weighting = "conviction"
    THEN conviction_weight(self, assets, convictions)
    ELSE IF weighting = "market_cap"
    THEN market_cap_weight(self, assets, market_caps)
    ELSE Returned(equal_weight(assets))

create_basket(self, assets, weighting, volatilities, convictions, market_caps) ==
    LET kept == trimmed(self, assets)
        w == policy_weights(self, kept, weighting, volatilities, convictions,
                            market_caps)
    IN  IF Len(assets) = 0 THEN Returned(<<>>)
        ELSE IF w.raised THEN w
        ELSE Returned([i \in 1..Len(kept) |->
                          [coin |-> kept[i], weight |-> round(w.value[i], 4)]])

\* One entry of validate_basket's error list.
Error(msg, coin, num) == [msg |-> msg, coin |-> coin, num |-> num]

RECURSIVE Concat(_)
Concat(ss) == IF ss = <<>> THEN <<>> ELSE Head(ss) \o Concat(Tail(ss))

\* A per-item check that reports at most one error for an item: a symbol
\* error hides the weight error of the same item.
item_errors_first_only(self, item) ==
    LET weight == Get(item, "weight", Zero)
        coin == Get(item, "coin", "")
    IN  IF coin = "" THEN <<Error("Basket item missing 'coin' field", "", Zero)>>
        ELSE IF coin \notin ALL_ASSETS THEN <<Error("Invalid symbol", coin, Zero)>>
        ELSE IF Le(weight, Zero) THEN <<Error("Invalid weight", coin, weight)>>
        ELSE IF Lt(weight, self.min_weight)
        THEN <<Error("Weight below minimum", coin, weight)>>
        ELSE <<>>

\* The errors validate_basket's loop appends for one item: the symbol check,
\* then the weight check.
item_errors(self, item) ==
    LET weight == Get(item, "weight", Zero)
        coin == Get(item, "coin", "")
    IN  (IF coin = ""
         THEN <<Error("Basket item missing 'coin' field", "", Zero)>>
         ELSE IF coin \notin ALL_ASSETS
         THEN <<Error("Invalid symbol", coin, Zero)>>
         ELSE <<>>)
        \o
        (IF Le(weight, Zero)
         THEN <<Error("Invalid weight", coin, weight)>>
         ELSE IF Lt(weight, self.min_weight)
         THEN <<Error("Weight below minimum", coin, weight)>>
         ELSE <<>>)

validate_basket(self, basket) ==
    LET n == Len(basket)
        size_errors ==
            IF n > self.max_assets
            THEN <<Error("Basket has too many assets", "", Num(n))>>
            ELSE <<>>
        total_weight == SumSeq([i \in 1..n |-> Get(basket[i], "weight", Zero)])
        sum_errors ==
            IF Lt(Frac(1, 100), AbsR(Sub(total_weight, One)))
            THEN <<Error("Weights sum to, not 1.0", "", round(total_weight, 4))>>
            ELSE <<>>
        errors == size_errors \o sum_errors
                  \o Concat([i \in 1..n |-> item_errors(self, basket[i])])
    IN  IF n = 0 THEN <<FALSE, <<Error("Basket is empty", "", Zero)>>>>
        ELSE <<Len(errors) = 0, errors>>

\* A classifier that looks at the first item of each side only.
get_basket_type_first_item(long_basket, short_basket) ==
    IF Len(long_basket) = 0 \/ Len(short_basket) = 0 THEN "MIXED_BASKET"
    ELSE get_asset_class(long_basket[1].coin) \o "_VS_"
         \o get_asset_class(short_basket[1].coin)

get_basket_type(long_basket, short_basket) ==
    LET long_classes == {get_asset_class(long_basket[i].coin) :
                            i \in 1..Len(long_basket)}
        short_classes == {get_asset_class(short_basket[i].coin) :
                             i \in 1..Len(short_basket)}
    IN  IF long_classes = {"METALS"} /\ short_classes = {"CRYPTO"}
        THEN "METALS_VS_CRYPTO"
        ELSE IF long_classes = {"CRYPTO"} /\ short_classes = {"METALS"}
        THEN "CRYPTO_VS_METALS"
        ELSE IF long_classes = {"STOCKS"} /\ short_classes = {"CRYPTO"}
        THEN "STOCKS_VS_CRYPTO"
        ELSE IF long_classes = {"CRYPTO"} /\ short_classes = {"STOCKS"}
        THEN "CRYPTO_VS_STOCKS"
        ELSE IF long_classes = {"METALS"} /\ short_classes = {"STOCKS"}
        THEN "METALS_VS_STOCKS"
        ELSE IF long_classes = {"STOCKS"} /\ short_classes = {"METALS"}
        THEN "STOCKS_VS_METALS"
        ELSE IF long_classes = short_classes /\ short_classes = {"CRYPTO"}
        THEN "CRYPTO_VS_CRYPTO"
        ELSE IF long_classes = short_classes /\ short_classes = {"METALS"}
        THEN "METALS_VS_METALS"
        ELSE IF long_classes = short_classes /\ short_classes = {"STOCKS"}
        THEN "STOCKS_VS_STOCKS"
        ELSE "MIXED_BASKET"

----------------------------------------------------------------------------
(* backend/lllm/risk_manager 2.py                                          *)

MAX_POSITIONS == 3
MAX_LEVERAGE == 4
ACCOUNT_BALANCE == 20000
RISK_PER_TRADE == Frac(1, 100)

\* RiskManager.__init__: an argument that is None (or 0) takes the default.
RiskManager(account_balance) ==
    [account_balance |-> IF account_balance = Zero THEN Num(ACCOUNT_BALANCE)
                         ELSE account_balance,
     risk_per_trade |-> RISK_PER_TRADE,
     max_positions |-> MAX_POSITIONS,
     max_leverage |-> Num(MAX_LEVERAGE)]

risk_get_asset_class(symbol) ==
    IF symbol \in CRYPTO_ASSETS THEN "CRYPTO"
    ELSE IF symbol \in METAL_ASSETS THEN "METALS"
    ELSE IF symbol \in STOCK_ASSETS THEN "STOCKS"
    ELSE "UNKNOWN"

calculate_basket_volatility(assets, volatilities) ==
    LET n == Len(assets)
        vols == [i \in 1..n |->
                    IF assets[i] \in DOMAIN volatilities THEN volatilities[assets[i]]
                    ELSE VOLATILITY_BASELINES(risk_get_asset_class(assets[i]))]
    IN  IF n = 0 THEN Frac(30, 10) ELSE Div(SumSeq(vols), Num(n))

Coins(basket) == [i \in 1..Len(basket) |-> basket[i].coin]

\* A branch test that calls a pair cross-asset only when the two sides share
\* no class.
is_cross_asset_when_disjoint(long_basket, short_basket) ==
    LET long_assets == Coins(long_basket)
        short_assets == Coins(short_basket)
        long_classes == {risk_get_asset_class(long_assets[i]) :
                            i \in 1..Len(long_assets)}
        short_classes == {risk_get_asset_class(short_assets[i]) :
                             i \in 1..Len(short_assets)}
    IN  long_classes \cap short_classes = {}

\* _calculate_vol_adjustment's local is_cross_asset.
is_cross_asset(long_basket, short_basket) ==
    LET long_assets == Coins(long_basket)
        short_assets == Coins(short_basket)
        long_classes == {risk_get_asset_class(long_assets[i]) :
                            i \in 1..Len(long_assets)}
        short_classes == {risk_get_asset_class(short_assets[i]) :
                             i \in 1..Len(short_assets)}
    IN  long_classes # short_classes

\* An adjustment that goes by the level of avg_vol alone, whatever the
\* classes of the two sides.
calculate_vol_adjustment_by_level(long_basket, short_basket, volatilities) ==
    LET long_vol == calculate_basket_volatility(Coins(long_basket), volatilities)
        short_vol == calculate_basket_volatility(Coins(short_basket), volatilities)
        avg_vol == Div(Add(long_vol, short_vol), Num(2))
    IN  IF Lt(Num(10), avg_vol) THEN Returned(Frac(6, 10))
        ELSE IF Lt(Num(7), avg_vol) THEN Returned(Frac(8, 10))
        ELSE IF Lt(avg_vol, Num(2)) THEN Returned(Frac(12, 10))
        ELSE Returned(One)

calculate_vol_adjustment(long_basket, short_basket, volatilities) ==
    LET long_assets == Coins(long_basket)
        short_assets == Coins(short_basket)
        long_vol == calculate_basket_volatility(long_assets, volatilities)
        short_vol == calculate_basket_volatility(short_assets, volatilities)
        avg_vol == Div(Add(long_vol, short_vol), Num(2))
        crypto_baseline == VOLATILITY_BASELINES("CRYPTO")
    IN  IF is_cross_asset(long_basket, short_basket)
        THEN IF avg_vol = Zero THEN ZeroDivisionError
             ELSE IF Lt(avg_vol, crypto_baseline)
             THEN Returned(Min(Div(crypto_baseline, avg_vol), Num(3)))
             ELSE Returned(Max(Div(crypto_baseline, avg_vol), Frac(1, 2)))
        ELSE IF Lt(Num(10), avg_vol) THEN Returned(Frac(6, 10))
        ELSE IF Lt(Num(7), avg_vol) THEN Returned(Frac(8, 10))
        ELSE IF Lt(avg_vol, Num(2)) THEN Returned(Frac(12, 10))
        ELSE Returned(One)

\* The rejection_reason string: its fixed text and the two numbers it prints.
Reason(msg, x, y) == [msg |-> msg, x |-> x, y |-> y]

\* A rejection that reports no reason.
Rejected_without_reason(reason) ==
    [status |-> "rejected", size_usd |-> Zero, risk_usd |-> Zero]

Rejected(reason) ==
    [status |-> "rejected", rejection_reason |-> reason,
     size_usd |-> Zero, risk_usd |-> Zero]

\* A limit check that lets the call through at the limit itself.
position_limit_reached_strict(self, open_positions) ==
    open_positions > self.max_positions

\* The position-limit check.
position_limit_reached(self, open_positions) ==
    open_positions >= self.max_positions

\* A cap that never clamps.
capped_never(size_usd, risk_usd, max_size, sl_decimal) ==
    [size_usd |-> size_usd, risk_usd |-> risk_usd]

\* A cap that clamps the size and keeps the risk computed before it.
capped_keeps_risk(size_usd, risk_usd, max_size, sl_decimal) ==
    [size_usd |-> Min(size_usd, max_size), risk_usd |-> risk_usd]

\* size_usd and risk_usd after the 25%-of-account cap.
capped(size_usd, risk_usd, max_size, sl_decimal) ==
    IF Lt(max_size, size_usd)
    THEN [size_usd |-> max_size, risk_usd |-> Mul(max_size, sl_decimal)]
    ELSE [size_usd |-> size_usd, risk_usd |-> risk_usd]

\* A minimum-risk check against 5 instead of 50.
min_risk_ok_low(risk_usd) == ~Lt(risk_usd, Num(5))

\* min_risk = 50
min_risk_ok(risk_usd) == ~Lt(risk_usd, Num(50))

\* A multiplier that falls as the confidence rises.
confidence_mult_falling(confidence) == Sub(One, Div(confidence, Num(20)))

\* A multiplier that is proportional to the confidence.
confidence_mult_linear(confidence) == Div(confidence, Num(10))

\* confidence_mult = 0.5 + (confidence / 20.0)
confidence_mult(confidence) == Add(Frac(1, 2), Div(confidence, Num(20)))

\* The call of calculate_position_size: what it returns (or raises) and the
\* values of its locals on the way.
position_size_frame(self, confidence, long_basket, short_basket, volatilities, open_positions, sl_percent) ==
    LET base_risk == Mul(self.account_balance, self.risk_per_trade)
        conf_mult == confidence_mult(confidence)
        vol_adjustment ==
            calculate_vol_adjustment(long_basket, short_basket, volatilities)
        position_penalty ==
            Max(Sub(One, Mul(Num(open_positions), Frac(2, 10))), Frac(4, 10))
        risk_usd == Mul(Mul(Mul(base_risk, conf_mult), vol_adjustment.value),
                        position_penalty)
        sl_decimal == Div(sl_percent, Num(100))
        size_usd == Div(risk_usd, sl_decimal)
        max_size == Mul(self.account_balance, Frac(25, 100))
        cap == capped(size_usd, risk_usd, max_size, sl_decimal)
        leverage == Min(Div(cap.size_usd, Div(self.account_balance, Num(2))),
                        self.max_leverage)
        long_size == Div(cap.size_usd, Num(2))
        short_size == Div(cap.size_usd, Num(2))
    IN  IF position_limit_reached(self, open_positions)
        THEN [locals |-> <<>>,
              ret |-> Returned(Rejected(Reason("Position limit reached",
                          Num(open_positions), Num(self.max_positions))))]
        ELSE IF vol_adjustment.raised
        THEN [locals |-> <<>>, ret |-> ZeroDivisionError]
        ELSE IF sl_decimal = Zero
        THEN [locals |-> [vol_adjustment |-> vol_adjustment.value,
                          risk_usd |-> risk_usd],
              ret |-> ZeroDivisionError]
        ELSE [locals |-> [vol_adjustment |-> vol_adjustment.value,
                          risk_usd |-> risk_usd, size_usd |-> size_usd,
                          max_size |-> max_size, sl_decimal |-> sl_decimal,
                          capped_risk_usd |-> cap.risk_usd],
              ret |-> IF ~min_risk_ok(cap.risk_usd)
                      THEN Returned(Rejected(Reason("Risk amount below minimum",
                                                    round(cap.risk_usd, 2), Num(50))))
                      ELSE Returned(
                               [status |-> "approved",
                                size_usd |-> round(cap.size_usd, 2),
                                long_size_usd |-> round(long_size, 2),
                                short_size_usd |-> round(short_size, 2),
                                risk_usd |-> round(cap.risk_usd, 2),
                                leverage |-> round(leverage, 2),
                                vol_adjustment |-> round(vol_adjustment.value, 2),
                                confidence_used |-> confidence,
                                sl_percent_used |-> sl_percent])]

calculate_position_size(self, confidence, long_basket, short_basket, volatilities, open_positions, sl_percent) ==
    position_size_frame(self, confidence, long_basket, short_basket, volatilities,
                        open_positions, sl_percent).ret

----------------------------------------------------------------------------
(* backend/lllm/llm_engine 2.py, backend/lllm/executor 2.py and            *)
(* backend/lllm/main 2.py: what one trading cycle calls.                   *)

CONFIDENCE_THRESHOLD == 5
MIN_SL_PERCENT == 3
MAX_SL_PERCENT == 10
MIN_TP_PERCENT == 10
MAX_TP_PERCENT == 50

required_fields ==
    {"trade_type", "basket_category", "long_basket", "short_basket",
     "confidence", "thesis", "position_sizing", "factor_analysis",
     "execution_recommendation", "weighting_method"}

\* LLMEngine.validate_signal's checks of one basket.
signal_basket_ok(basket) ==
    /\ Len(basket) > 0
    /\ Len(basket) <= MAX_ASSETS_PER_SIDE
    /\ \A i \in 1..Len(basket) :
           /\ {"coin", "weight"} \subseteq DOMAIN basket[i]
           /\ basket[i].coin \in ALL_ASSETS
           /\ Lt(Zero, basket[i].weight) /\ Le(basket[i].weight, One)
    /\ ~Lt(Frac(1, 100),
           AbsR(Sub(SumSeq([i \in 1..Len(basket) |-> Get(basket[i], "weight", Zero)]),
                    One)))

\* LLMEngine.validate_signal: is_valid, TRUE when no check adds an error.
validate_signal(signal) ==
    /\ required_fields \subseteq DOMAIN signal
    /\ signal_basket_ok(signal.long_basket)
    /\ signal_basket_ok(signal.short_basket)
    /\ Le(Zero, signal.confidence) /\ Le(signal.confidence, Num(10))
    /\ LET sl == Get(signal.position_sizing, "recommended_sl_percent", Zero)
           tp == Get(signal.position_sizing, "recommended_tp_percent", Zero)
       IN  /\ Le(Num(MIN_SL_PERCENT), sl) /\ Le(sl, Num(MAX_SL_PERCENT))
           /\ Le(Num(MIN_TP_PERCENT), tp) /\ Le(tp, Num(MAX_TP_PERCENT))
           /\ Lt(sl, tp)
    /\ signal.execution_recommendation \in {"MARKET", "TWAP"}
    /\ signal.weighting_method \in {"equal", "volatility", "conviction"}

\* A threshold check that lets every signal through.
should_trade_always(signal) == TRUE

\* LLMEngine.should_trade with the default threshold.
should_trade(signal) ==
    Le(Num(CONFIDENCE_THRESHOLD), Get(signal, "confidence", Zero))

\* The key of an asset's volatility in the market data: "<asset>_vol".
vol_key(asset) ==
    CASE asset = "BTC" -> "btc_vol" [] asset = "ETH" -> "eth_vol"
      [] asset = "SOL" -> "sol_vol" [] asset = "ARB" -> "arb_vol"
      [] asset = "OP" -> "op_vol" [] asset = "DOGE" -> "doge_vol"
      [] asset = "MATIC" -> "matic_vol"

\* RatioBot._extract_volatilities
extract_volatilities(market_data) ==
    [asset \in ALL_ASSETS |->
        IF vol_key(asset) \in DOMAIN market_data THEN market_data[vol_key(asset)]
        ELSE VOLATILITY_BASELINES(risk_get_asset_class(asset))]

\* The answer of GET positions: a list of the open positions, a dict that
\* holds the list under "positions", or a failed request.
Positions(n) == [i \in 1..n |-> [id |-> i]]
ResponseKinds == {"list", "dict", "failed"}

\* PearProtocolExecutor._get: the JSON of the answer, or {"error": ...}.
executor_get(kind, open_at_venue) ==
    IF kind = "list" THEN [list |-> Positions(open_at_venue)]
    ELSE IF kind = "dict" THEN [positions |-> Positions(open_at_venue)]
    ELSE [error |-> "RequestException"]

\* PearProtocolExecutor.get_open_positions on the result of _get.
get_open_positions(result) ==
    IF "list" \in DOMAIN result THEN Returned(result.list)
    ELSE IF "error" \in DOMAIN result THEN Returned(<<>>)
    ELSE Returned(Get(result, "positions", <<>>))

\* PearProtocolExecutor._validate_basket
executor_validate_basket(basket) ==
    /\ Len(basket) > 0
    /\ Len(basket) <= 5
    /\ ~Lt(Frac(1, 100),
           AbsR(Sub(SumSeq([i \in 1..Len(basket) |-> Get(basket[i], "weight", Zero)]),
                    One)))
    /\ \A i \in 1..Len(basket) :
           /\ Get(basket[i], "coin", "") \in
                  CRYPTO_ASSETS \cup METAL_ASSETS \cup STOCK_ASSETS
           /\ Lt(Zero, Get(basket[i], "weight", Zero))
           /\ Le(Get(basket[i], "weight", Zero), One)

----------------------------------------------------------------------------
(* The redistributor applied to a weight vector, then to its own output.   *)

GridDen == 20

\* Vectors of n non-negative multiples of 1/GridDen that sum to 1.
WeightVectors(n) ==
    LET heads == {h \in [1..(n - 1) -> 0..GridDen] :
                     SumSeq([i \in 1..(n - 1) |-> Num(h[i])])[1] <= GridDen}
    IN  {[i \in 1..n |->
            IF i < n THEN Frac(h[i], GridDen)
            ELSE Frac(GridDen - SumSeq([j \in 1..(n - 1) |-> Num(h[j])])[1], GridDen)]
         : h \in heads}

InitRedistribute ==
    /\ builder = BasketBuilder
    /\ manager = <<>>
    /\ pc = "input"
    /\ \E n \in 1..MAX_ASSETS_PER_SIDE : \E w \in WeightVectors(n) :
           call = [op |-> "_enforce_min_weight", weights |-> w]
    /\ locals = <<>>
    /\ ret = <<>>
    /\ ret2 = <<>>
    /\ venue = <<>>
    /\ lock = <<>>

Redistribute ==
    /\ pc = "input"
    /\ ret' = enforce_min_weight(builder, call.weights)
    /\ locals' = enforce_min_weight_frame(builder, call.weights).locals
    /\ pc' = "once"
    /\ UNCHANGED <<venue, lock, builder, manager, call, ret2>>

RedistributeAgain ==
    /\ pc = "once"
    /\ ret2' = enforce_min_weight(builder, ret)
    /\ pc' = "twice"
    /\ UNCHANGED <<venue, lock, builder, manager, call, locals, ret>>

NextRedistribute == Redistribute \/ RedistributeAgain

SpecRedistribute == InitRedistribute /\ [][NextRedistribute]_vars

----------------------------------------------------------------------------
(* create_basket on a symbol list under each weighting, then validate_basket*)
(* on the basket it returned.                                              *)

MaxLen == 6

Ranked == <<"BTC", "ETH", "SOL", "ARB", "OP", "DOGE", "MATIC", "LINK">>

\* Symbol lists: tradeable symbols only, of 0 to MaxLen entries (more than
\* max_assets included), and one list that mixes the asset classes.
AssetLists ==
    {SubSeq(Ranked, 1, n) : n \in 0..MaxLen} \cup {<<"XAU", "BTC", "FOO", "AAPL">>}

Weightings == {"equal", "volatility", "conviction", "market_cap", "momentum"}

VolValues == {Frac(1, 20), Frac(4, 5), Num(8)}
ConvictionValues == {Zero, Num(1), Num(14)}
CapValues == {Zero, Num(100), Num(800)}

\* Every dict whose keys are among `keys` and whose values are among `values`.
Dicts(keys, values) == UNION {[K -> values] : K \in SUBSET keys}

Symbols(assets) == {assets[i] : i \in 1..Len(assets)}

\* The dicts passed for a parameter: all of them for the policy that reads
\* the parameter, none or one for a policy that does not.
AuxDicts(weighting, reader, assets, values) ==
    IF weighting = reader THEN Dicts(Symbols(assets), values)
    ELSE IF weighting = "momentum"
    THEN {<<>>, [a \in Symbols(assets) |-> CHOOSE v \in values : v # Zero]}
    ELSE {<<>>}

InitBasket ==
    /\ builder = BasketBuilder
    /\ manager = <<>>
    /\ pc = "input"
    /\ \E assets \in AssetLists, weighting \in Weightings :
       \E volatilities \in AuxDicts(weighting, "volatility", assets, VolValues),
          convictions \in AuxDicts(weighting, "conviction", assets, ConvictionValues),
          market_caps \in AuxDicts(weighting, "market_cap", assets, CapValues) :
           call = [op |-> "create_basket", assets |-> assets,
                   weighting |-> weighting, volatilities |-> volatilities,
                   convictions |-> convictions, market_caps |-> market_caps]
    /\ locals = <<>>
    /\ ret = <<>>
    /\ ret2 = <<>>
    /\ venue = <<>>
    /\ lock = <<>>

CreateBasket ==
    /\ pc = "input"
    /\ LET w == policy_weights(builder, trimmed(builder, call.assets),
                               call.weighting, call.volatilities,
                               call.convictions, call.market_caps)
       IN  locals' = IF Len(call.assets) = 0 \/ w.raised THEN <<>>
                      ELSE [weights |-> w.value]
    /\ ret' = create_basket(builder, call.assets, call.weighting,
                            call.volatilities, call.convictions, call.market_caps)
    /\ pc' = "created"
    /\ UNCHANGED <<venue, lock, builder, manager, call, ret2>>

ValidateBasket ==
    /\ pc = "created"
    /\ ~ret.raised
    /\ ret2' = validate_basket(builder, ret.value)
    /\ pc' = "validated"
    /\ UNCHANGED <<venue, lock, builder, manager, call, locals, ret>>

NextBasket == CreateBasket \/ ValidateBasket

SpecBasket == InitBasket /\ [][NextBasket]_vars

----------------------------------------------------------------------------
(* calculate_position_size on one RiskManager.                             *)

MaxOpen == 4

Balances == {Num(20000), Num(4000)}
Confidences == {Zero, Frac(15, 2), Num(10)}
StopLosses == {Zero, Frac(1, 2), Num(5), Num(8)}
PairVolValues == {Zero, Num(3), Num(12)}

\* A basket as the signal carries it: equal weights on the given coins.
BasketOf(coins) ==
    [i \in 1..Len(coins) |-> [coin |-> coins[i], weight |-> Frac(1, Len(coins))]]

BasketPairs ==
    {<<BasketOf(<<"BTC", "ETH">>), BasketOf(<<"SOL">>)>>,
     <<BasketOf(<<"XAU", "XAG">>), BasketOf(<<"BTC", "ETH">>)>>,
     <<BasketOf(<<"XAU">>), BasketOf(<<"XAG">>)>>,
     <<BasketOf(<<"BTC", "XAU">>), BasketOf(<<"BTC">>)>>,
     <<BasketOf(<<>>), BasketOf(<<"BTC">>)>>,
     <<BasketOf(<<"FOO">>), BasketOf(<<"AAPL">>)>>}

InitSizing ==
    /\ builder = <<>>
    /\ \E balance \in Balances : manager = RiskManager(balance)
    /\ pc = "input"
    /\ \E pair \in BasketPairs, confidence \in Confidences,
          sl_percent \in StopLosses, open_positions \in 0..MaxOpen :
       \E volatilities \in Dicts(Symbols(Coins(pair[1])) \cup Symbols(Coins(pair[2])),
                                 PairVolValues) :
           call = [op |-> "calculate_position_size", confidence |-> confidence,
                   long_basket |-> pair[1], short_basket |-> pair[2],
                   volatilities |-> volatilities,
                   open_positions |-> open_positions, sl_percent |-> sl_percent]
    /\ locals = <<>>
    /\ ret = <<>>
    /\ ret2 = <<>>
    /\ venue = <<>>
    /\ lock = <<>>

CalculatePositionSize ==
    /\ pc = "input"
    /\ LET frame == position_size_frame(manager, call.confidence, call.long_basket,
                        call.short_basket, call.volatilities, call.open_positions,
                        call.sl_percent)
       IN  /\ locals' = frame.locals
           /\ ret' = calculate_position_size(manager, call.confidence,
                         call.long_basket, call.short_basket, call.volatilities,
                         call.open_positions, call.sl_percent)
    /\ pc' = "sized"
    /\ UNCHANGED <<venue, lock, builder, manager, call, ret2>>

\* The same call on a same-class pair: the confidence, stop loss and open
\* count of the first call, and single-symbol crypto sides whose measured
\* volatilities give the avg_vol of the first call.
CalculateSameClass ==
    /\ pc = "sized"
    /\ LET long_vol == calculate_basket_volatility(Coins(call.long_basket),
                                                   call.volatilities)
           short_vol == calculate_basket_volatility(Coins(call.short_basket),
                                                    call.volatilities)
           avg_vol == Div(Add(long_vol, short_vol), Num(2))
       IN  ret2' = position_size_frame(manager, call.confidence,
                       BasketOf(<<"BTC">>), BasketOf(<<"ETH">>),
                       [a \in {"BTC", "ETH"} |-> avg_vol], call.open_positions,
                       call.sl_percent)
    /\ pc' = "compared"
    /\ UNCHANGED <<venue, lock, builder, manager, call, locals, ret>>

NextSizing == CalculatePositionSize \/ CalculateSameClass

SpecSizing == InitSizing /\ [][NextSizing]_vars

----------------------------------------------------------------------------
(* validate_basket on a basket the caller wrote by hand.                   *)

MaxItems == 6
ShortLen == 3

Item(coin, n, d) == [coin |-> coin, weight |-> Frac(n, d)]

\* Well-formed items of tradeable symbols: baskets of up to MaxItems of them
\* reach the size limit with weights that still sum to 1.
CoreItems ==
    {Item("BTC", 1, 2), Item("ETH", 1, 10), Item("SOL", 1, 5), Item("ARB", 3, 10)}

\* Items that break one check each: a zero, a negative and a too small
\* weight, an unknown symbol (with and without a weight), metals, a stock,
\* and items with a key missing.
OddItems ==
    {Item("ETH", 1, 2), Item("ETH", 9, 20), Item("SOL", 1, 20), Item("BTC", 0, 1),
     Item("BTC", -1, 2), Item("FOO", 1, 2), Item("FOO", 0, 1), Item("XAU", 1, 2), Item("XAG", 1, 2),
     Item("AAPL", 1, 2), [weight |-> Frac(1, 2)], [coin |-> "BTC"]}

SeqsOver(S, maxlen) == UNION {[1..n -> S] : n \in 0..maxlen}

HandBaskets ==
    SeqsOver(CoreItems, MaxItems) \cup SeqsOver(CoreItems \cup OddItems, ShortLen)

InitValidate ==
    /\ builder = BasketBuilder
    /\ manager = <<>>
    /\ pc = "input"
    /\ \E basket \in HandBaskets : call = [op |-> "validate_basket", basket |-> basket]
    /\ locals = <<>>
    /\ ret = <<>>
    /\ ret2 = <<>>
    /\ venue = <<>>
    /\ lock = <<>>

Validate ==
    /\ pc = "input"
    /\ ret' = validate_basket(builder, call.basket)
    /\ pc' = "checked"
    /\ UNCHANGED <<venue, lock, builder, manager, call, locals, ret2>>

NextValidate == Validate

SpecValidate == InitValidate /\ [][NextValidate]_vars

----------------------------------------------------------------------------
(* get_basket_type on a pair of baskets, then on the swapped pair.         *)

\* Sides of one class, of two and three classes, with an unknown symbol,
\* and the empty side.
ClassifySides ==
    {<<>>, <<"BTC">>, <<"BTC", "ETH">>, <<"XAU">>, <<"XAU", "XAG">>, <<"AAPL">>,
     <<"AAPL", "NVDA">>, <<"BTC", "XAU">>, <<"XAU", "AAPL">>, <<"FOO">>,
     <<"BTC", "FOO">>, <<"BTC", "XAU", "AAPL">>}

InitClassify ==
    /\ builder = BasketBuilder
    /\ manager = <<>>
    /\ pc = "input"
    /\ \E long \in ClassifySides, short \in ClassifySides :
           call = [op |-> "get_basket_type", long_basket |-> BasketOf(long),
                   short_basket |-> BasketOf(short)]
    /\ locals = <<>>
    /\ ret = <<>>
    /\ ret2 = <<>>
    /\ venue = <<>>
    /\ lock = <<>>

Classify ==
    /\ pc = "input"
    /\ ret' = get_basket_type(call.long_basket, call.short_basket)
    /\ pc' = "classified"
    /\ UNCHANGED <<venue, lock, builder, manager, call, locals, ret2>>

ClassifySwapped ==
    /\ pc = "classified"
    /\ ret2' = get_basket_type(call.short_basket, call.long_basket)
    /\ pc' = "swapped"
    /\ UNCHANGED <<venue, lock, builder, manager, call, locals, ret>>

\* The risk manager's branch test on the pair the classifier labelled.
NormalizerBranch ==
    /\ pc = "swapped"
    /\ locals' = [is_cross_asset |-> is_cross_asset(call.long_basket, call.short_basket)]
    /\ pc' = "normalized"
    /\ UNCHANGED <<venue, lock, builder, manager, call, ret, ret2>>

NextClassify == Classify \/ ClassifySwapped \/ NormalizerBranch

SpecClassify == InitClassify /\ [][NextClassify]_vars

----------------------------------------------------------------------------
(* Two threads on one shared RiskManager and one shared BasketBuilder.  A  *)
(* call runs in steps, one for each stretch of the method that reads a     *)
(* field of self; the steps of the two threads interleave freely.          *)

Threads == {"t1", "t2"}

SharedSizingCalls ==
    {[op |-> "calculate_position_size", confidence |-> confidence,
      long_basket |-> pair[1], short_basket |-> pair[2], volatilities |-> <<>>,
      open_positions |-> open_positions, sl_percent |-> sl_percent] :
        pair \in {<<BasketOf(<<"BTC", "ETH">>), BasketOf(<<"SOL">>)>>,
                  <<BasketOf(<<"XAU", "XAG">>), BasketOf(<<"BTC", "ETH">>)>>},
        confidence \in {Frac(15, 2), Num(10)},
        sl_percent \in {Zero, Num(3), Num(5)},
        open_positions \in {0, 2, MAX_POSITIONS}}

SharedBasketCalls ==
    {[op |-> "create_basket", assets |-> assets, weighting |-> weighting,
      volatilities |-> volatilities, convictions |-> <<>>, market_caps |-> <<>>] :
        assets \in {<<>>, SubSeq(Ranked, 1, 3), SubSeq(Ranked, 1, 6)},
        weighting \in {"equal", "volatility", "market_cap"},
        volatilities \in {<<>>, [a \in {"BTC"} |-> Frac(1, 20)]}}

InitShared ==
    /\ builder = BasketBuilder
    /\ \E balance \in Balances : manager = RiskManager(balance)
    /\ pc = [t \in Threads |-> "call"]
    /\ call \in [Threads -> SharedSizingCalls \cup SharedBasketCalls]
    /\ locals = [t \in Threads |-> <<>>]
    /\ ret = [t \in Threads |-> <<>>]
    /\ ret2 = <<>>
    /\ venue = <<>>
    /\ lock = <<>>

\* A limit check that takes the slot it grants out of the shared instance.
CheckLimit_taking_slot(t) ==
    /\ pc[t] = "call"
    /\ call[t].op = "calculate_position_size"
    /\ IF position_limit_reached(manager, call[t].open_positions)
       THEN /\ ret' = [ret EXCEPT ![t] =
                          Returned(Rejected(Reason("Position limit reached",
                              Num(call[t].open_positions),
                              Num(manager.max_positions))))]
            /\ pc' = [pc EXCEPT ![t] = "done"]
            /\ UNCHANGED manager
       ELSE /\ pc' = [pc EXCEPT ![t] = "risk"]
            /\ manager' = [manager EXCEPT !.max_positions = @ - 1]
            /\ UNCHANGED ret
    /\ UNCHANGED <<venue, lock, builder, call, locals, ret2>>

\* calculate_position_size, lines 98-106: reads self.max_positions.
CheckLimit(t) ==
    /\ pc[t] = "call"
    /\ call[t].op = "calculate_position_size"
    /\ IF position_limit_reached(manager, call[t].open_positions)
       THEN /\ ret' = [ret EXCEPT ![t] =
                          Returned(Rejected(Reason("Position limit reached",
                              Num(call[t].open_positions),
                              Num(manager.max_positions))))]
            /\ pc' = [pc EXCEPT ![t] = "done"]
       ELSE /\ pc' = [pc EXCEPT ![t] = "risk"]
            /\ UNCHANGED ret
    /\ UNCHANGED <<venue, lock, builder, manager, call, locals, ret2>>

\* Lines 108-139: reads self.account_balance and self.risk_per_trade.
ComputeRisk(t) ==
    /\ pc[t] = "risk"
    /\ LET base_risk == Mul(manager.account_balance, manager.risk_per_trade)
           vol_adjustment ==
               calculate_vol_adjustment(call[t].long_basket, call[t].short_basket,
                                        call[t].volatilities)
           position_penalty ==
               Max(Sub(One, Mul(Num(call[t].open_positions), Frac(2, 10))),
                   Frac(4, 10))
           risk_usd == Mul(Mul(Mul(base_risk, confidence_mult(call[t].confidence)),
                               vol_adjustment.value), position_penalty)
           sl_decimal == Div(call[t].sl_percent, Num(100))
       IN  IF vol_adjustment.raised \/ sl_decimal = Zero
           THEN /\ ret' = [ret EXCEPT ![t] = ZeroDivisionError]
                /\ pc' = [pc EXCEPT ![t] = "done"]
                /\ UNCHANGED locals
           ELSE /\ locals' = [locals EXCEPT ![t] =
                                 [vol_adjustment |-> vol_adjustment.value,
                                  risk_usd |-> risk_usd, sl_decimal |-> sl_decimal,
                                  size_usd |-> Div(risk_usd, sl_decimal)]]
                /\ pc' = [pc EXCEPT ![t] = "cap"]
                /\ UNCHANGED ret
    /\ UNCHANGED <<venue, lock, builder, manager, call, ret2>>

\* Lines 141-146: reads self.account_balance.
ApplyCap(t) ==
    /\ pc[t] = "cap"
    /\ LET max_size == Mul(manager.account_balance, Frac(25, 100))
           cap == capped(locals[t].size_usd, locals[t].risk_usd, max_size,
                         locals[t].sl_decimal)
       IN  locals' = [locals EXCEPT ![t] =
                         [@ EXCEPT !.size_usd = cap.size_usd,
                                   !.risk_usd = cap.risk_usd]]
    /\ pc' = [pc EXCEPT ![t] = "leverage"]
    /\ UNCHANGED <<venue, lock, builder, manager, call, ret, ret2>>

\* Lines 148-177: reads self.account_balance and self.max_leverage.
FinishSizing(t) ==
    /\ pc[t] = "leverage"
    /\ LET size_usd == locals[t].size_usd
           risk_usd == locals[t].risk_usd
           leverage == Min(Div(size_usd, Div(manager.account_balance, Num(2))),
                           manager.max_leverage)
       IN  ret' = [ret EXCEPT ![t] =
                      IF ~min_risk_ok(risk_usd)
                      THEN Returned(Rejected(Reason("Risk amount below minimum",
                                                    round(risk_usd, 2), Num(50))))
                      ELSE Returned(
                               [status |-> "approved",
                                size_usd |-> round(size_usd, 2),
                                long_size_usd |-> round(Div(size_usd, Num(2)), 2),
                                short_size_usd |-> round(Div(size_usd, Num(2)), 2),
                                risk_usd |-> round(risk_usd, 2),
                                leverage |-> round(leverage, 2),
                                vol_adjustment |-> round(locals[t].vol_adjustment, 2),
                                confidence_used |-> call[t].confidence,
                                sl_percent_used |-> call[t].sl_percent])]
    /\ pc' = [pc EXCEPT ![t] = "done"]
    /\ UNCHANGED <<venue, lock, builder, manager, call, locals, ret2>>

\* create_basket, lines 71-77: reads self.max_assets; `assets` is rebound to
\* a slice, the caller's list stays as it was.
TrimAssets(t) ==
    /\ pc[t] = "call"
    /\ call[t].op = "create_basket"
    /\ IF Len(call[t].assets) = 0
       THEN /\ ret' = [ret EXCEPT ![t] = Returned(<<>>)]
            /\ pc' = [pc EXCEPT ![t] = "done"]
            /\ UNCHANGED locals
       ELSE /\ locals' = [locals EXCEPT ![t] =
                             [assets |-> trimmed(builder, call[t].assets)]]
            /\ pc' = [pc EXCEPT ![t] = "weigh"]
            /\ UNCHANGED ret
    /\ UNCHANGED <<venue, lock, builder, manager, call, ret2>>

\* Lines 79-98: the weighting policy (reads self.min_weight) and the basket.
WeighAssets(t) ==
    /\ pc[t] = "weigh"
    /\ LET kept == locals[t].assets
           w == policy_weights(builder, kept, call[t].weighting,
                               call[t].volatilities, call[t].convictions,
                               call[t].market_caps)
       IN  ret' = [ret EXCEPT ![t] =
                      IF w.raised THEN w
                      ELSE Returned([i \in 1..Len(kept) |->
                               [coin |-> kept[i], weight |-> round(w.value[i], 4)]])]
    /\ pc' = [pc EXCEPT ![t] = "done"]
    /\ UNCHANGED <<venue, lock, builder, manager, call, locals, ret2>>

NextShared ==
    \E t \in Threads :
        \/ CheckLimit(t)
        \/ ComputeRisk(t)
        \/ ApplyCap(t)
        \/ FinishSizing(t)
        \/ TrimAssets(t)
        \/ WeighAssets(t)

SpecShared == InitShared /\ [][NextShared]_vars

----------------------------------------------------------------------------
(* Two RatioBot processes trading one account: run_cycle, step by step.    *)
(* The callers either serialize the fetch-size-execute part of a cycle     *)
(* among themselves (lock.serialized) or run it unsynchronized.            *)

MaxVenue == 5

Bots == {"b1", "b2"}

BaseSignal ==
    [trade_type |-> "BASKET", basket_category |-> "CRYPTO_VS_CRYPTO",
     long_basket |-> BasketOf(<<"BTC", "ETH">>), short_basket |-> BasketOf(<<"SOL">>),
     confidence |-> Frac(15, 2), thesis |-> "thesis",
     position_sizing |-> [recommended_sl_percent |-> Num(5),
                          recommended_tp_percent |-> Num(15)],
     factor_analysis |-> <<>>, execution_recommendation |-> "MARKET",
     weighting_method |-> "equal"]

\* What the LLM may answer: a tradeable signal, one below the confidence
\* threshold, one with a stop loss out of range, one with a metals side.
SignalsOfLLM ==
    {BaseSignal,
     [BaseSignal EXCEPT !.confidence = Num(3)],
     [BaseSignal EXCEPT !.position_sizing.recommended_sl_percent = Num(2)],
     [BaseSignal EXCEPT !.long_basket = BasketOf(<<"XAU", "XAG">>)]}

\* The collector measured the volatility of BTC and of nothing else.
MarketData == {[k \in {"btc_vol"} |-> Num(3)]}

NoHolder == "none"

Result(status) == [status |-> status]

\* The result of a cycle that reached step 6: result["execution"] holds the
\* status of the execution result ("dry_run", "open" or "failed").
Executed(status, execution) == [status |-> status, execution |-> execution]

InitCycle ==
    /\ builder = BasketBuilder
    /\ manager = RiskManager(Zero)
    /\ pc = [b \in Bots |-> "idle"]
    /\ \E dry_run \in BOOLEAN :
           call = [b \in Bots |-> [dry_run |-> dry_run /\ b = "b1"]]
    /\ locals = [b \in Bots |-> <<>>]
    /\ ret = [b \in Bots |-> Result("pending")]
    /\ ret2 = <<>>
    /\ venue \in [open : 0..MAX_POSITIONS]
    /\ lock \in [serialized : BOOLEAN, holder : {NoHolder}]

Release(b) == IF lock.holder = b THEN [lock EXCEPT !.holder = NoHolder] ELSE lock

\* run_cycle steps 1-4: market data, signal, validation, threshold.
BeginCycle(b) ==
    /\ pc[b] = "idle"
    /\ \E market_data \in MarketData, signal \in SignalsOfLLM :
          IF ~validate_signal(signal)
          THEN /\ ret' = [ret EXCEPT ![b] = Result("invalid_signal")]
               /\ UNCHANGED <<pc, locals>>
          ELSE IF ~should_trade(signal)
          THEN /\ ret' = [ret EXCEPT ![b] = Result("below_threshold")]
               /\ UNCHANGED <<pc, locals>>
          ELSE /\ locals' = [locals EXCEPT ![b] =
                                [signal |-> signal,
                                 confidence |-> Get(signal, "confidence", Zero),
                                 volatilities |-> extract_volatilities(market_data),
                                 passed |-> <<"validate_signal", "should_trade">>]]
               /\ pc' = [pc EXCEPT ![b] = "fetch"]
               /\ ret' = [ret EXCEPT ![b] = Result("pending")]
    /\ UNCHANGED <<venue, lock, builder, manager, call, ret2>>

\* Lines 155-157: get_open_positions and num_open.  `at_venue` records what
\* the venue held when it was asked.
FetchOpenPositions(b) ==
    /\ pc[b] = "fetch"
    /\ lock.serialized => lock.holder = NoHolder
    /\ \E kind \in ResponseKinds :
          LET open_positions == get_open_positions(executor_get(kind, venue.open))
          IN  locals' = [locals EXCEPT ![b] =
                            [signal |-> @.signal, confidence |-> @.confidence,
                             volatilities |-> @.volatilities,
                             passed |-> @.passed,
                             num_open |-> Len(open_positions.value),
                             at_venue |-> venue.open]]
    /\ lock' = IF lock.serialized THEN [lock EXCEPT !.holder = b] ELSE lock
    /\ pc' = [pc EXCEPT ![b] = "size"]
    /\ UNCHANGED <<venue, builder, manager, call, ret, ret2>>

\* Lines 159-173: calculate_position_size and the rejection.
SizePosition(b) ==
    /\ pc[b] = "size"
    /\ LET signal == locals[b].signal
           position ==
               calculate_position_size(manager, locals[b].confidence,
                   Get(signal, "long_basket", <<>>), Get(signal, "short_basket", <<>>),
                   locals[b].volatilities, locals[b].num_open,
                   Get(Get(signal, "position_sizing", <<>>),
                       "recommended_sl_percent", Num(5)))
       IN  IF position.raised
           THEN /\ ret' = [ret EXCEPT ![b] = Result("error")]
                /\ pc' = [pc EXCEPT ![b] = "idle"]
                /\ lock' = Release(b)
                /\ UNCHANGED locals
           ELSE IF position.value.status = "rejected"
           THEN /\ ret' = [ret EXCEPT ![b] = Result("position_rejected")]
                /\ pc' = [pc EXCEPT ![b] = "idle"]
                /\ lock' = Release(b)
                /\ UNCHANGED locals
           ELSE /\ locals' = [locals EXCEPT ![b] =
                                 [signal |-> @.signal, num_open |-> @.num_open,
                                  at_venue |-> @.at_venue,
                                  passed |-> Append(@.passed, "calculate_position_size"),
                                  position |-> position.value]]
                /\ pc' = [pc EXCEPT ![b] = "execute"]
                /\ UNCHANGED <<ret, lock>>
    /\ UNCHANGED <<venue, builder, manager, call, ret2>>

\* Lines 175-200: the dry run, or execute_signal -> open_basket_trade: the
\* executor's own basket check, then POST positions, which opens a position
\* at the venue or fails.
ExecuteTrade(b) ==
    /\ pc[b] = "execute"
    /\ IF call[b].dry_run
       THEN /\ ret' = [ret EXCEPT ![b] = Executed("success", "dry_run")]
            /\ UNCHANGED venue
       ELSE IF ~(/\ executor_validate_basket(locals[b].signal.long_basket)
                 /\ executor_validate_basket(locals[b].signal.short_basket))
       THEN /\ ret' = [ret EXCEPT ![b] = Executed("execution_failed", "failed")]
            /\ UNCHANGED venue
       ELSE \/ /\ venue.open < MaxVenue
               /\ venue' = [venue EXCEPT !.open = @ + 1]
               /\ ret' = [ret EXCEPT ![b] = Executed("success", "open")]
            \/ /\ ret' = [ret EXCEPT ![b] = Executed("execution_failed", "failed")]
               /\ UNCHANGED venue
    /\ pc' = [pc EXCEPT ![b] = "idle"]
    /\ lock' = Release(b)
    /\ locals' = [locals EXCEPT ![b] = <<>>]
    /\ UNCHANGED <<builder, manager, call, ret2>>

\* The venue closes a position (its stop loss or take profit was hit).
VenueCloses ==
    /\ venue.open > 0
    /\ venue' = [venue EXCEPT !.open = @ - 1]
    /\ UNCHANGED <<lock, builder, manager, pc, call, locals, ret, ret2>>

NextCycle ==
    \/ \E b \in Bots :
          \/ BeginCycle(b)
          \/ FetchOpenPositions(b)
          \/ SizePosition(b)
          \/ ExecuteTrade(b)
    \/ VenueCloses

SpecCycle == InitCycle /\ [][NextCycle]_vars

----------------------------------------------------------------------------
(* _calculate_vol_adjustment on a pair of baskets, then on the same coins  *)
(* under other weights.                                                    *)

\* The coins of the basket under weights 1 : 2 : ... : n.
Reweighted(basket) ==
    LET n == Len(basket)
    IN  [i \in 1..n |-> [coin |-> basket[i].coin,
                         weight |-> Frac(2 * i, n * (n + 1))]]

InitAdjust ==
    /\ builder = <<>>
    /\ manager = RiskManager(Zero)
    /\ pc = "input"
    /\ \E pair \in BasketPairs :
       \E volatilities \in Dicts(Symbols(Coins(pair[1])) \cup Symbols(Coins(pair[2])),
                                 PairVolValues) :
           call = [op |-> "_calculate_vol_adjustment", long_basket |-> pair[1],
                   short_basket |-> pair[2], volatilities |-> volatilities]
    /\ locals = <<>>
    /\ ret = <<>>
    /\ ret2 = <<>>
    /\ venue = <<>>
    /\ lock = <<>>

Adjust ==
    /\ pc = "input"
    /\ ret' = calculate_vol_adjustment(call.long_basket, call.short_basket,
                                       call.volatilities)
    /\ pc' = "adjusted"
    /\ UNCHANGED <<venue, lock, builder, manager, call, locals, ret2>>

AdjustReweighted ==
    /\ pc = "adjusted"
    /\ ret2' = calculate_vol_adjustment(Reweighted(call.long_basket),
                    Reweighted(call.short_basket), call.volatilities)
    /\ pc' = "reweighted"
    /\ UNCHANGED <<venue, lock, builder, manager, call, locals, ret>>

NextAdjust == Adjust \/ AdjustReweighted

SpecAdjust == InitAdjust /\ [][NextAdjust]_vars

----------------------------------------------------------------------------
(* calculate_position_size on one input, then on the same input with a     *)
(* higher confidence, then on the same input with more positions open.     *)

MonotoneVolValues == {Num(12)}

InitMonotone ==
    /\ builder = <<>>
    /\ \E balance \in Balances : manager = RiskManager(balance)
    /\ pc = "input"
    /\ \E pair \in BasketPairs, sl_percent \in StopLosses,
          confidence \in Confidences, more_confidence \in Confidences,
          open_positions \in 0..MaxOpen, more_open_positions \in 0..MaxOpen :
       \E volatilities \in Dicts(Symbols(Coins(pair[1])) \cup Symbols(Coins(pair[2])),
                                 MonotoneVolValues) :
           /\ Lt(confidence, more_confidence)
           /\ open_positions < more_open_positions
           /\ call = [op |-> "calculate_position_size", confidence |-> confidence,
                      more_confidence |-> more_confidence,
                      long_basket |-> pair[1], short_basket |-> pair[2],
                      volatilities |-> volatilities,
                      open_positions |-> open_positions,
                      more_open_positions |-> more_open_positions,
                      sl_percent |-> sl_percent]
    /\ locals = <<>>
    /\ ret = <<>>
    /\ ret2 = <<>>
    /\ venue = <<>>
    /\ lock = <<>>

SizeBase ==
    /\ pc = "input"
    /\ ret' = calculate_position_size(manager, call.confidence, call.long_basket,
                  call.short_basket, call.volatilities, call.open_positions,
                  call.sl_percent)
    /\ pc' = "base"
    /\ UNCHANGED <<venue, lock, builder, manager, call, locals, ret2>>

SizeMoreConfident ==
    /\ pc = "base"
    /\ ret2' = calculate_position_size(manager, call.more_confidence,
                   call.long_basket, call.short_basket, call.volatilities,
                   call.open_positions, call.sl_percent)
    /\ pc' = "confident"
    /\ UNCHANGED <<venue, lock, builder, manager, call, locals, ret>>

SizeMoreOpen ==
    /\ pc = "confident"
    /\ locals' = [more_open |->
                     calculate_position_size(manager, call.confidence,
                         call.long_basket, call.short_basket, call.volatilities,
                         call.more_open_positions, call.sl_percent)]
    /\ pc' = "crowded"
    /\ UNCHANGED <<venue, lock, builder, manager, call, ret, ret2>>

NextMonotone == SizeBase \/ SizeMoreConfident \/ SizeMoreOpen

SpecMonotone == InitMonotone /\ [][NextMonotone]_vars

----------------------------------------------------------------------------
(* Properties of the redistributor (SpecRedistribute).                     *)

AtLeastMin(ws) == \A i \in 1..Len(ws) : Le(builder.min_weight, ws[i])
Feasible(ws) == Le(Mul(Num(Len(ws)), builder.min_weight), One)

\* C1: applying _enforce_min_weight to its own output changes nothing:
\* the second output equals the first entry by entry.
C1_Idempotent == pc = "twice" => ret2 = ret

\* C2: whenever n * min_weight <= 1, every entry of the vector
\* _enforce_min_weight returns is at least min_weight.
C2_FloorHeld == (pc = "once" /\ Feasible(call.weights)) => AtLeastMin(ret)

----------------------------------------------------------------------------
(* Properties of create_basket and validate_basket (SpecBasket).           *)

Tolerance(sum, eps) == Le(AbsR(Sub(sum, One)), eps)
RoundedWeights(basket) == [i \in 1..Len(basket) |-> basket[i].weight]
Built == pc \in {"created", "validated"} /\ ~ret.raised /\ Len(ret.value) > 0

\* C3: under every weighting the weights of a built basket sum to 1 within
\* 0.0001 before rounding, and its 4-decimal weights sum to 1 within 0.01.
C3_WeightsSumToOne ==
    Built => /\ Tolerance(SumSeq(locals.weights), Frac(1, 10000))
             /\ Tolerance(SumSeq(RoundedWeights(ret.value)), Frac(1, 100))

\* A five-asset basket whose weights went through the redistributor and whose
\* rounded weights no longer sum to exactly 1.
C3_Witness ==
    /\ Built
    /\ call.weighting = "conviction"
    /\ Len(ret.value) = 5
    /\ \E i \in 1..5 : locals.weights[i] = builder.min_weight
    /\ SumSeq(RoundedWeights(ret.value)) # One
    /\ SumSeq(locals.weights) = One

AllPositive(d) == \A k \in DOMAIN d : Lt(Zero, d[k])

\* C4: a basket built from 1 to 5 tradeable symbols with positive
\* volatility, conviction and market-cap inputs passes validate_basket.
C4_BuiltBasketValidates ==
    (/\ pc = "validated"
     /\ Len(call.assets) \in 1..builder.max_assets
     /\ Symbols(call.assets) \subseteq ALL_ASSETS
     /\ AllPositive(call.volatilities)
     /\ AllPositive(call.convictions)
     /\ AllPositive(call.market_caps))
    => ret2[1]

\* C10: create_basket returns a basket for every symbol list and every
\* weighting with well-typed maps; it never raises.
C10_CreateBasketTotal == pc \in {"created", "validated"} => ~ret.raised

----------------------------------------------------------------------------
(* Properties of calculate_position_size (SpecSizing).                     *)

Sized == pc = "sized" /\ ~ret.raised
Approved == Sized /\ ret.value.status = "approved"
IsRejected == Sized /\ ret.value.status = "rejected"
Clamped == "size_usd" \in DOMAIN locals /\ Lt(locals.max_size, locals.size_usd)

\* C5: with open_positions >= max_positions the call is rejected with the
\* reason "Position limit reached (k/max)", whatever the other arguments.
C5_LimitRejects ==
    (pc = "sized" /\ call.open_positions >= manager.max_positions)
    => /\ IsRejected
       /\ ret.value.rejection_reason =
              Reason("Position limit reached", Num(call.open_positions),
                     Num(manager.max_positions))

\* At the limit exactly, with the highest confidence and a stop loss of 0.
C5_Witness ==
    /\ IsRejected
    /\ call.open_positions = manager.max_positions
    /\ call.confidence = Num(10)
    /\ call.sl_percent = Zero

\* C6: an approved size_usd is at most 25% of the account balance, and when
\* the size was clamped the returned risk_usd is the clamped size times
\* sl_percent/100, below the risk computed before the clamp.
C6_ClampedRisk ==
    Approved =>
        /\ Le(ret.value.size_usd, Mul(manager.account_balance, Frac(25, 100)))
        /\ Clamped =>
              /\ ret.value.size_usd = Mul(manager.account_balance, Frac(25, 100))
              /\ ret.value.risk_usd =
                     Mul(ret.value.size_usd, Div(call.sl_percent, Num(100)))
              /\ Lt(ret.value.risk_usd, locals.risk_usd)

C6_Witness == Approved /\ Clamped

\* C7: no approved result has risk_usd < 50, and a call whose risk was at
\* least 50 before the clamp and below 50 after it is rejected for risk
\* below the minimum.
C7_MinRiskAfterClamp ==
    /\ Approved => ~Lt(ret.value.risk_usd, Num(50))
    /\ (/\ Sized
        /\ Clamped
        /\ ~Lt(locals.risk_usd, Num(50))
        /\ Lt(Mul(locals.max_size, locals.sl_decimal), Num(50)))
       => /\ IsRejected
          /\ ret.value.rejection_reason.msg = "Risk amount below minimum"

C7_Witness ==
    /\ IsRejected
    /\ Clamped
    /\ ~Lt(locals.risk_usd, Num(50))
    /\ Lt(Mul(locals.max_size, locals.sl_decimal), Num(50))

RejectedKeys == {"status", "rejection_reason", "size_usd", "risk_usd"}
ApprovedKeys == {"status", "size_usd", "long_size_usd", "short_size_usd",
                 "risk_usd", "leverage", "vol_adjustment", "confidence_used",
                 "sl_percent_used"}

\* C8: a returned result is either rejected (a reason, size_usd = 0,
\* risk_usd = 0, no approved-only field) or approved (positive size, leg
\* sizes, risk, leverage and volatility adjustment, no reason), never both.
C8_ApprovedOrRejected ==
    Sized =>
        \/ /\ ret.value.status = "rejected"
           /\ DOMAIN ret.value = RejectedKeys
           /\ ret.value.size_usd = Zero
           /\ ret.value.risk_usd = Zero
           /\ ret.value.rejection_reason.msg \in
                  {"Position limit reached", "Risk amount below minimum"}
        \/ /\ ret.value.status = "approved"
           /\ DOMAIN ret.value = ApprovedKeys
           /\ \A k \in {"size_usd", "long_size_usd", "short_size_usd", "risk_usd",
                        "leverage", "vol_adjustment"} : Lt(Zero, ret.value[k])

\* An approved result with positions already open (the penalty applied).
C8_Witness == Approved /\ call.open_positions > 0 /\ DOMAIN ret.value = ApprovedKeys

\* C9: calculate_position_size returns a result for every well-typed
\* numeric input; it never raises.
C9_SizingTotal == pc = "sized" => ~ret.raised

----------------------------------------------------------------------------
(* Properties of validate_basket on any basket (SpecValidate).             *)

Checked == pc = "checked"
ItemWeight(item) == Get(item, "weight", Zero)
ItemCoin(item) == Get(item, "coin", "")
WeightSum(basket) == SumSeq([i \in 1..Len(basket) |-> ItemWeight(basket[i])])

\* The four conditions of a valid basket, with the limits as the
\* specification states them.
SizeOk(basket) == Len(basket) \in 1..5
SumOk(basket) == Tolerance(WeightSum(basket), Frac(1, 100))
SymbolOk(item) == ItemCoin(item) \in CRYPTO_ASSETS
WeightOk(item) == Le(Frac(10, 100), ItemWeight(item))

\* C11: validate_basket returns is_valid = TRUE exactly when the basket has
\* 1 to 5 items, weights that sum to 1 within 0.01, only tradeable symbols
\* and only weights of at least 0.10.
C11_ValidIffWellFormed ==
    Checked =>
        (ret[1] <=> /\ SizeOk(call.basket)
                    /\ SumOk(call.basket)
                    /\ \A i \in 1..Len(call.basket) :
                           SymbolOk(call.basket[i]) /\ WeightOk(call.basket[i]))

\* A five-item basket accepted with one weight exactly at the minimum.
C11_Witness ==
    /\ Checked
    /\ ret[1]
    /\ Len(call.basket) = 5
    /\ \E i \in 1..5 : call.basket[i].weight = Frac(10, 100)

Count(b) == IF b THEN 1 ELSE 0

RECURSIVE SumInts(_)
SumInts(s) == IF s = <<>> THEN 0 ELSE Head(s) + SumInts(Tail(s))

\* The number of checks a non-empty basket violates.
Violations(basket) ==
    Count(Len(basket) > 5) + Count(~SumOk(basket))
    + SumInts([i \in 1..Len(basket) |->
                  Count(~SymbolOk(basket[i])) + Count(~WeightOk(basket[i]))])

\* C12: validate_basket returns without raising and collects the errors:
\* a non-empty basket gets one error per violated check (size, weight sum,
\* each item's symbol, each item's weight), an empty basket gets the single
\* error "Basket is empty", and is_valid is TRUE exactly when the list is
\* empty.
C12_ErrorsCollected ==
    Checked =>
        /\ ret[1] <=> ret[2] = <<>>
        /\ Len(call.basket) = 0 => ret = <<FALSE, <<Error("Basket is empty", "", Zero)>>>>
        /\ Len(call.basket) > 0 => Len(ret[2]) = Violations(call.basket)

\* An item with an unknown symbol and a zero weight: two errors for it, on
\* top of the error for the weight sum.
C12_Witness ==
    /\ Checked
    /\ \E i \in 1..Len(call.basket) :
           ~SymbolOk(call.basket[i]) /\ ~WeightOk(call.basket[i])
    /\ ~SumOk(call.basket)
    /\ Len(ret[2]) >= 3

InSomeClass(item) == get_asset_class(ItemCoin(item)) # "UNKNOWN"

\* C13: a basket of 1 to 5 items whose symbols all belong to an asset class
\* (crypto, metals or stocks), with weights of at least 0.10 that sum to 1,
\* validates with no errors; <<XAU 0.5, XAG 0.5>> does.
C13_ClassifiedSymbolsValidate ==
    (/\ Checked
     /\ SizeOk(call.basket)
     /\ SumOk(call.basket)
     /\ \A i \in 1..Len(call.basket) :
            InSomeClass(call.basket[i]) /\ WeightOk(call.basket[i]))
    => ret = <<TRUE, <<>>>>

----------------------------------------------------------------------------
(* Properties of get_basket_type (SpecClassify).                           *)

Classes == {"CRYPTO", "METALS", "STOCKS"}

ClassTable(class) ==
    CASE class = "CRYPTO" -> CRYPTO_ASSETS
      [] class = "METALS" -> METAL_ASSETS
      [] class = "STOCKS" -> STOCK_ASSETS

\* A non-empty side whose symbols all belong to the one class.
SingleClass(basket, class) ==
    Len(basket) > 0 /\ \A i \in 1..Len(basket) : basket[i].coin \in ClassTable(class)

Label(a, b) == a \o "_VS_" \o b
Labels == {Label(a, b) : a, b \in Classes} \cup {"MIXED_BASKET"}

\* C14: for a non-empty long side of one class A and a non-empty short side
\* of one class B, get_basket_type returns "A_VS_B", for all nine pairs of
\* classes, and the swapped call returns "B_VS_A".
C14_SingleClassLabels ==
    \A a, b \in Classes :
        (SingleClass(call.long_basket, a) /\ SingleClass(call.short_basket, b))
        => /\ pc \in {"classified", "swapped"} => ret = Label(a, b)
           /\ pc = "swapped" => ret2 = Label(b, a)

\* Two stocks long against two metals short, classified both ways round.
C14_Witness ==
    /\ pc = "swapped"
    /\ SingleClass(call.long_basket, "STOCKS") /\ Len(call.long_basket) = 2
    /\ SingleClass(call.short_basket, "METALS") /\ Len(call.short_basket) = 2
    /\ ret = "STOCKS_VS_METALS"
    /\ ret2 = "METALS_VS_STOCKS"

HasUnknown(basket) ==
    \E i \in 1..Len(basket) : \A c \in Classes : basket[i].coin \notin ClassTable(c)

SpansClasses(basket) ==
    \E i, j \in 1..Len(basket) : \E c, d \in Classes :
        c # d /\ basket[i].coin \in ClassTable(c) /\ basket[j].coin \in ClassTable(d)

Irregular(basket) == Len(basket) = 0 \/ HasUnknown(basket) \/ SpansClasses(basket)

\* C15: get_basket_type returns "MIXED_BASKET" whenever a side is empty,
\* holds an unknown symbol or spans two or more classes, and every value it
\* returns is one of the nine class-pair labels or "MIXED_BASKET".
C15_MixedAndRange ==
    pc \in {"classified", "swapped"} =>
        /\ ret \in Labels
        /\ (Irregular(call.long_basket) \/ Irregular(call.short_basket))
           => ret = "MIXED_BASKET"

\* A long side that starts with a crypto symbol and also holds a metal,
\* against a crypto short side.
C15_Witness ==
    /\ pc = "classified"
    /\ SpansClasses(call.long_basket)
    /\ call.long_basket[1].coin \in CRYPTO_ASSETS
    /\ SingleClass(call.short_basket, "CRYPTO")
    /\ ret = "MIXED_BASKET"

----------------------------------------------------------------------------
(* Worked scenarios of calculate_position_size (SpecSizing).               *)

\* avg_vol of _calculate_vol_adjustment: the mean of the two side means.
AvgVol ==
    Div(Add(calculate_basket_volatility(Coins(call.long_basket), call.volatilities),
            calculate_basket_volatility(Coins(call.short_basket), call.volatilities)),
        Num(2))

AllCrypto(basket) ==
    Len(basket) > 0 /\ \A i \in 1..Len(basket) : basket[i].coin \in CRYPTO_ASSETS

MetalsLongCryptoShort ==
    /\ SingleClass(call.long_basket, "METALS")
    /\ SingleClass(call.short_basket, "CRYPTO")

\* Both calls returned: the cross-asset one (ret) and the same-class one on
\* the same confidence, stop loss, open count and avg_vol (ret2).
Compared == pc = "compared" /\ ~ret.raised /\ ~ret2.ret.raised

----------------------------------------------------------------------------
(* Shared instances under concurrent calls (SpecShared).                   *)

\* What the call returns when it runs alone on the instance `self`.
Sequential(self_manager, self_builder, c) ==
    IF c.op = "calculate_position_size"
    THEN calculate_position_size(self_manager, c.confidence, c.long_basket,
             c.short_basket, c.volatilities, c.open_positions, c.sl_percent)
    ELSE create_basket(self_builder, c.assets, c.weighting, c.volatilities,
                       c.convictions, c.market_caps)

\* Every finished call returned what it returns when run alone on the
\* instances as they were constructed.
SameAsSequential ==
    \E balance \in Balances :
        \A t \in Threads :
            pc[t] = "done" =>
                ret[t] = Sequential(RiskManager(balance), BasketBuilder, call[t])

\* No step changes a field of the shared instances or an argument.
ReadOnlyStep == manager' = manager /\ builder' = builder /\ call' = call

\* C18: no step of calculate_position_size or create_basket changes the
\* RiskManager's or the BasketBuilder's fields or the caller's arguments,
\* and under every interleaving of two calls on the shared instances each
\* call returns what it returns when run alone.
C18_ReadOnlyShared == [][ReadOnlyStep]_vars /\ []SameAsSequential

\* One thread has returned an approved size while the other, sizing on the
\* same RiskManager, is between its reads of account_balance.
C18_Witness ==
    /\ pc["t1"] = "done"
    /\ call["t1"].op = "calculate_position_size"
    /\ ~ret["t1"].raised
    /\ ret["t1"].value.status = "approved"
    /\ pc["t2"] = "cap"

----------------------------------------------------------------------------
(* The position limit across trading cycles (SpecCycle).                   *)

\* C19: when the callers serialize fetch, sizing and execution, the number
\* of positions open on the account never exceeds max_positions.
C19_SerializedLimit == lock.serialized => venue.open <= manager.max_positions

\* Without serialization: both bots fetched the count max_positions - 1,
\* both were approved, and the venue now holds more than max_positions.
RaceExceedsLimit ==
    /\ ~lock.serialized
    /\ venue.open > manager.max_positions
    /\ pc["b1"] = "execute"
    /\ locals["b1"].num_open = manager.max_positions - 1
    /\ locals["b1"].at_venue = manager.max_positions - 1
    /\ ret["b2"].status = "success"

\* C20: the count a cycle passes to calculate_position_size is the number
\* of positions the venue held when it was asked, and (the callers being
\* serialized) no cycle gets to execute a trade while the venue holds
\* MAX_POSITIONS or more.
C20_CountIsLive ==
    \A b \in Bots :
        /\ pc[b] \in {"size", "execute"} => locals[b].num_open = locals[b].at_venue
        /\ (lock.serialized /\ pc[b] = "execute" /\ ~call[b].dry_run)
           => venue.open < MAX_POSITIONS

----------------------------------------------------------------------------
(* Properties of the weighting policies (SpecBasket).                      *)

Kept == trimmed(builder, call.assets)

\* The volatility the policy is given for the i-th kept asset: the caller's
\* value, or the stand-in for a symbol without one.
GivenVol(i) ==
    IF Falsy(call.volatilities)
    THEN VOLATILITY_BASELINES(get_asset_class(Kept[i]))
    ELSE Get(call.volatilities, Kept[i], Frac(30, 10))

\* C21: in a basket built with the volatility policy, an asset of lower
\* volatility never has a smaller weight than an asset of higher volatility.
C21_InverseVolOrder ==
    (Built /\ call.weighting = "volatility")
    => \A i, j \in 1..Len(ret.value) :
           Lt(GivenVol(i), GivenVol(j))
           => Le(ret.value[j].weight, ret.value[i].weight)

\* The caller's volatility map with every kept symbol it lacks filled in by
\* the baseline of the symbol's asset class.
CompletedVolatilities ==
    [a \in Symbols(Kept) |->
        Get(call.volatilities, a, VOLATILITY_BASELINES(get_asset_class(a)))]

\* C22: under the volatility policy a symbol absent from the supplied map
\* is weighted by the baseline of its asset class: the basket is the one
\* built from the map completed with the class baselines.
C22_AbsentSymbolBaseline ==
    (Built /\ call.weighting = "volatility")
    => ret = create_basket(builder, call.assets, "volatility",
                           CompletedVolatilities, call.convictions,
                           call.market_caps)

----------------------------------------------------------------------------
(* Properties of _calculate_vol_adjustment (SpecAdjust).                   *)

\* The classes of a side, read from the tables; UNKNOWN counts as a class.
ClassSet(basket) ==
    {c \in Classes : \E i \in 1..Len(basket) : basket[i].coin \in ClassTable(c)}
    \cup (IF HasUnknown(basket) THEN {"UNKNOWN"} ELSE {})

ClassOf(coin) ==
    IF \E c \in Classes : coin \in ClassTable(c)
    THEN CHOOSE c \in Classes : coin \in ClassTable(c)
    ELSE "UNKNOWN"

\* The unweighted mean of the per-asset volatilities of a non-empty side.
MeanVol(basket) ==
    Div(SumSeq([i \in 1..Len(basket) |->
                   Get(call.volatilities, basket[i].coin,
                       VOLATILITY_BASELINES(ClassOf(basket[i].coin)))]),
        Num(Len(basket)))

PairAvgVol == Div(Add(MeanVol(call.long_basket), MeanVol(call.short_basket)), Num(2))

\* The adjustment as the specification states it.
Piecewise(cross, avg) ==
    IF cross
    THEN IF Lt(avg, Num(5)) THEN Min(Div(Num(5), avg), Num(3))
         ELSE Max(Div(Num(5), avg), Frac(1, 2))
    ELSE IF Lt(Num(10), avg) THEN Frac(6, 10)
    ELSE IF Lt(Num(7), avg) THEN Frac(8, 10)
    ELSE IF Lt(avg, Num(2)) THEN Frac(12, 10)
    ELSE One

BothSides == Len(call.long_basket) > 0 /\ Len(call.short_basket) > 0
IsCross == ClassSet(call.long_basket) # ClassSet(call.short_basket)

----------------------------------------------------------------------------
(* Properties of create_basket's trimming and dispatch (SpecBasket).       *)

FirstFive(assets) == IF Len(assets) > 5 THEN SubSeq(assets, 1, 5) ELSE assets

\* C24: the basket create_basket returns holds one item per input symbol
\* in input order, cut to the first 5 symbols when more than 5 are given.
C24_FirstFiveInOrder ==
    (pc \in {"created", "validated"} /\ ~ret.raised)
    => Coins(ret.value) = FirstFive(call.assets)

\* Six symbols in, the first five out.
C24_Witness ==
    /\ Built
    /\ Len(call.assets) = 6
    /\ Coins(ret.value) = <<"BTC", "ETH", "SOL", "ARB", "OP">>
    /\ call.weighting = "market_cap"

KnownWeightings == {"equal", "volatility", "conviction", "market_cap"}

\* C25: with a weighting name that is none of equal, volatility,
\* conviction, market_cap, create_basket returns the basket of the equal
\* policy for the same symbols, whatever maps are passed.
C25_UnknownWeightingIsEqual ==
    (pc \in {"created", "validated"} /\ call.weighting \notin KnownWeightings)
    => /\ ~ret.raised
       /\ ret = create_basket(builder, call.assets, "equal", <<>>, <<>>, <<>>)

\* An unknown weighting with all three maps supplied, on a list that is
\* trimmed.
C25_Witness ==
    /\ Built
    /\ call.weighting \notin KnownWeightings
    /\ ~Falsy(call.volatilities) /\ ~Falsy(call.convictions) /\ ~Falsy(call.market_caps)
    /\ Len(call.assets) = 6
    /\ \A i \in 1..5 : ret.value[i].weight = Frac(1, 5)

----------------------------------------------------------------------------
(* The redistribution branch of _enforce_min_weight (SpecRedistribute).    *)

SomeBelow(ws) == \E i \in 1..Len(ws) : Lt(ws[i], Frac(1, 10))

\* C26: for a vector summing to 1 with n * 0.1 <= 1 and an entry below
\* 0.1, above_total exceeds deficit, so the entries above the floor are
\* always shrunk, and new_weights sums to 1 before the final division.
C26_AlwaysShrunk ==
    (pc \in {"once", "twice"} /\ SumSeq(call.weights) = One
        /\ Le(Mul(Num(Len(call.weights)), Frac(1, 10)), One)
        /\ SomeBelow(call.weights))
    => /\ Lt(locals.deficit, locals.above_total)
       /\ locals.total = One

\* Four of five entries are below the floor, two of them strictly between 0
\* and the floor.
C26_Witness ==
    /\ pc = "once"
    /\ call.weights = <<Frac(1, 20), Frac(1, 20), Zero, Zero, Frac(18, 20)>>
    /\ locals.deficit = Frac(3, 10)
    /\ locals.above_total = Frac(9, 10)
    /\ ret[5] = Frac(6, 10)

----------------------------------------------------------------------------
(* The leverage of an approved sizing (SpecSizing).                        *)

\* size_usd / (account_balance / 2) on the size after the 25% clamp.
HalfBalanceRatio ==
    Div(Min(locals.size_usd, Mul(manager.account_balance, Frac(1, 4))),
        Div(manager.account_balance, Num(2)))

\* C27: every approved result has leverage = size / (balance / 2) <= 0.5,
\* and the minimum with max_leverage = 4.0 leaves that ratio as it is.
C27_LeverageAtMostHalf ==
    Approved => /\ Le(ret.value.leverage, Frac(1, 2))
                /\ Le(HalfBalanceRatio, Frac(1, 2))
                /\ ret.value.leverage = round(HalfBalanceRatio, 2)
                /\ manager.max_leverage = Num(4)

\* An approved sizing whose size was clamped, at leverage 0.5, and one that
\* was not clamped, below 0.5.
C27_Witness ==
    /\ Approved
    /\ Clamped
    /\ ret.value.leverage = Frac(1, 2)
    /\ manager.account_balance = Num(4000)

C27_WitnessUnclamped ==
    /\ Approved
    /\ ~Clamped
    /\ Lt(ret.value.leverage, Frac(1, 2))
    /\ Lt(Zero, ret.value.leverage)

----------------------------------------------------------------------------
(* The classifier's label against the normalizer's branch (SpecClassify).  *)

\* C28: on one pair, a label "A_VS_B" with A # B goes with the cross-asset
\* branch of _calculate_vol_adjustment, a label "A_VS_A" with its same-class
\* branch, and "MIXED_BASKET" with the same-class branch exactly when the
\* two sides have the same set of classes, UNKNOWN counted as a class.
C28_LabelAgreesWithBranch ==
    pc = "normalized"
    => /\ (\E a, b \in Classes : a # b /\ ret = Label(a, b)) => locals.is_cross_asset
       /\ (\E a \in Classes : ret = Label(a, a)) => ~locals.is_cross_asset
       /\ ret = "MIXED_BASKET"
              => (~locals.is_cross_asset
                    <=> ClassSet(call.long_basket) = ClassSet(call.short_basket))

\* A mixed pair whose sides share a class but not their class sets, on the
\* cross-asset branch.
C28_Witness ==
    /\ pc = "normalized"
    /\ ret = "MIXED_BASKET"
    /\ Coins(call.long_basket) = <<"BTC", "XAU">>
    /\ Coins(call.short_basket) = <<"BTC">>
    /\ locals.is_cross_asset

\* A mixed pair with identical class sets, one of them UNKNOWN, on the
\* same-class branch.
C28_WitnessMixedSame ==
    /\ pc = "normalized"
    /\ ret = "MIXED_BASKET"
    /\ Coins(call.long_basket) = <<"BTC", "FOO">>
    /\ Coins(call.short_basket) = <<"BTC", "FOO">>
    /\ ~locals.is_cross_asset

----------------------------------------------------------------------------
(* Sizing against its risk inputs (SpecMonotone).                          *)

IsApproved(r) == ~r.raised /\ r.value.status = "approved"
BelowMinimum(r) ==
    /\ ~r.raised
    /\ r.value.status = "rejected"
    /\ r.value.rejection_reason.msg = "Risk amount below minimum"

\* r is approved only if s is, with size_usd and risk_usd no larger than
\* those of s.
NoLarger(r, s) ==
    IsApproved(r) => /\ IsApproved(s)
                     /\ Le(r.value.size_usd, s.value.size_usd)
                     /\ Le(r.value.risk_usd, s.value.risk_usd)

\* C29: with baskets, volatilities and stop loss fixed, a higher
\* confidence in [0, 10] never gives a smaller approved size_usd or risk_usd,
\* more open positions never give a larger one, and a call rejected for
\* risk below minimum is still rejected at a lower confidence or with more
\* positions open.
C29_Monotone ==
    pc = "crowded"
    => /\ NoLarger(ret, ret2)
       /\ NoLarger(locals.more_open, ret)
       /\ BelowMinimum(ret2) => (~ret.raised /\ ret.value.status = "rejected")
       /\ BelowMinimum(ret) => (~locals.more_open.raised
                                   /\ locals.more_open.value.status = "rejected")

\* All three calls approved, with strictly more at the higher confidence
\* and strictly less with more positions open.
C29_Witness ==
    /\ pc = "crowded"
    /\ IsApproved(ret) /\ IsApproved(ret2) /\ IsApproved(locals.more_open)
    /\ Lt(ret.value.size_usd, ret2.value.size_usd)
    /\ Lt(ret.value.risk_usd, ret2.value.risk_usd)
    /\ Lt(locals.more_open.value.size_usd, ret.value.size_usd)

\* Rejected for risk below minimum, approved at the higher confidence and
\* still below minimum with more positions open.
C29_WitnessRejected ==
    /\ pc = "crowded"
    /\ BelowMinimum(ret)
    /\ IsApproved(ret2)
    /\ BelowMinimum(locals.more_open)

----------------------------------------------------------------------------
(* The gates of a trading cycle (SpecCycle).                               *)

\* The step in which bot b's cycle calls execute_signal.
Submits(b) ==
    /\ pc[b] = "execute"
    /\ pc'[b] = "idle"
    /\ ret'[b].execution # "dry_run"

GateStatuses == {"invalid_signal", "below_threshold", "position_rejected"}

\* C30: a cycle calls execute_signal only with dry_run off and after it
\* passed, in this order, validate_signal, the confidence threshold and an
\* approved calculate_position_size; the venue gains a position only in
\* such a step; and a cycle that ends with invalid_signal, below_threshold
\* or position_rejected ends without an execution.
C30_GatedExecution ==
    [][\A b \in Bots :
          /\ Submits(b)
             => /\ ~call[b].dry_run
                /\ locals[b].passed =
                       <<"validate_signal", "should_trade", "calculate_position_size">>
                /\ validate_signal(locals[b].signal)
                /\ Le(Num(5), locals[b].signal.confidence)
                /\ locals[b].position.status = "approved"
          /\ venue'.open > venue.open => \E c \in Bots : Submits(c)
          /\ (ret'[b] # ret[b] /\ ret'[b].status \in GateStatuses)
             => /\ venue' = venue
                /\ pc'[b] = "idle"
                /\ DOMAIN ret'[b] = {"status"}]_vars

\* One bot's order is open at the venue, the dry-run bot finished a cycle
\* with success and the venue gained nothing from it.
C30_Witness ==
    /\ call["b1"].dry_run
    /\ ret["b1"] = Executed("success", "dry_run")
    /\ ret["b2"] = Executed("success", "open")
    /\ venue.open = 1

\* A cycle stopped at the sizing gate after another stopped at validation.
C30_WitnessGates ==
    /\ ret["b1"].status = "position_rejected"
    /\ ret["b2"].status = "invalid_signal"
    /\ pc = [b \in Bots |-> "idle"]

====
